---- MODULE Spec2Model ----
(***************************************************************************)
(* Order-intake backend (src/server.js): the /api/submit-orders handler,   *)
(* ensureHeaders and ensureSheetExists, run against a spreadsheet tab and  *)
(* a file store.  One action per store call of the handler: JavaScript is  *)
(* single-threaded, so the code between two awaits is one atomic step and  *)
(* concurrent requests interleave at the awaits only.                      *)
(***************************************************************************)
EXTENDS Naturals, Sequences, FiniteSets, TLC

\* ---------------------------------------------------------------- bounds
NReq == 2           \* concurrent requests
MaxBatch == 2       \* records in one batch
MaxInitRows == 2    \* data rows (below row 1) the tab holds before the first request
MaxFaults == 1      \* store calls that fail for reasons outside the model
MaxFiles == 2       \* attachments the clients send, over all requests
MaxFilesOne == 1    \* the same, where the tab content or the arrivals vary instead
MaxExtra == 2       \* entries a positional record holds beyond the columns A..M
MaxSubs == 2        \* submissions to the keyed revisions, one after the other
MaxKBatch == 2      \* records in one batch of keyed records

\* ---------------------------------------------------------------- constants
\* FIXED_HEADERS (ASCII renderings of the Korean column names, in order).
FIXED_HEADERS ==
  << "product", "recipient", "phone", "bank", "account", "holder",
     "amount", "id", "orderno", "address", "nickname", "returnname",
     "returnphone", "image", "orderdate" >>

NFixed == 13        \* positional columns A..M filled from the record
NCols == 15         \* columns of the ranges A1:O1 and A:O

Reqs == 1..NReq
Manager == "Kim"    \* the tab the requests target

\* ---------------------------------------------------------------- cells, rows, grids
\* A cell is a string, "" when empty.  A stored row carries no trailing empty
\* cell and a stored grid no trailing empty row, as the values API reports them.
Whitespace == {" "}

Trim(cell) == IF cell \in Whitespace THEN "" ELSE cell

Max(a, b) == IF a >= b THEN a ELSE b

SetMax(S) == CHOOSE m \in S : \A n \in S : n <= m

SetMin(S) == CHOOSE m \in S : \A n \in S : m <= n

CellAt(row, c) == IF c <= Len(row) THEN row[c] ELSE ""

RowAt(g, n) == IF n >= 1 /\ n <= Len(g) THEN g[n] ELSE << >>

TrimRow(row) ==
  LET nz == {c \in 1..Len(row) : row[c] # ""}
  IN  IF nz = {} THEN << >> ELSE SubSeq(row, 1, SetMax(nz))

TrimGrid(g) ==
  LET nz == {n \in 1..Len(g) : g[n] # << >>}
  IN  IF nz = {} THEN << >> ELSE SubSeq(g, 1, SetMax(nz))

\* values.get over a range of `cols` columns: each row cut to the range, empty
\* trailing cells and empty trailing rows left out.
ReadRange(g, cols) ==
  TrimGrid([n \in 1..Len(g) |->
             TrimRow(SubSeq(g[n], 1, IF Len(g[n]) < cols THEN Len(g[n]) ELSE cols))])

\* values.update at A<start>: the cells covered by `rows` are overwritten (an
\* empty string clears the cell), every other cell keeps its value.
Overlay(old, new) ==
  TrimRow([c \in 1..Max(Len(old), Len(new)) |->
            IF c <= Len(new) THEN new[c] ELSE old[c]])

\* values.append in place of values.update: the rows go below the last row.
WriteAt_Append(g, start, rows) == TrimGrid(g \o [n \in 1..Len(rows) |-> TrimRow(rows[n])])

\* The rows are inserted at `start`, the rows from there on moved down.
WriteAt_Insert(g, start, rows) ==
  TrimGrid([n \in 1..(Max(Len(g), start - 1) + Len(rows)) |->
             IF n < start THEN RowAt(g, n)
             ELSE IF n < start + Len(rows) THEN TrimRow(rows[n - start + 1])
             ELSE RowAt(g, n - Len(rows))])

WriteAt(g, start, rows) ==
  TrimGrid([n \in 1..Max(Len(g), start + Len(rows) - 1) |->
             IF n >= start /\ n < start + Len(rows)
             THEN Overlay(RowAt(g, n), rows[n - start + 1])
             ELSE RowAt(g, n)])

\* ---------------------------------------------------------------- records and rows
\* JSON values that `value || ''` replaces by the empty string.
Falsy == {"", "<null>", "<0>", "<false>"}

OrDefault(v) == IF v \in Falsy THEN "" ELSE v

\* webViewLink of the file with the given id.
Url(id) == "url" \o ToString(id)

\* new Date().toLocaleString('ko-KR', ...) at clock reading t: never empty.
Stamp(t) == "ts" \o ToString(t)

\* The record at position i of the batch of request r (positional array).
OrderTag(r, i) == "o" \o ToString(r) \o "." \o ToString(i)

Record(r, i) == << OrderTag(r, i), "name" >>

Orders(r, k) == [i \in 1..k |-> Record(r, i)]

\* The entries the record has are pushed and nothing for the ones it lacks.
BuildRow_NoPad(orderValues, imageUrl, stamp) ==
  [c \in 1..(IF Len(orderValues) < NFixed THEN Len(orderValues) ELSE NFixed) |->
     OrDefault(orderValues[c])] \o << imageUrl, stamp >>

\* One row of allRows: columns A..M from the record by index, N the image
\* link, O the order date.
BuildRow(orderValues, imageUrl, stamp) ==
  [c \in 1..NCols |->
     IF c <= NFixed THEN OrDefault(CellAt(orderValues, c))
     ELSE IF c = NFixed + 1 THEN imageUrl
     ELSE stamp]

\* ---------------------------------------------------------------- keyed records (earlier revisions)
\* standardHeaders of getOrCreateHeaders (ASCII renderings, in order): eleven
\* fields, then the image link and the order date.
standardHeaders ==
  << "product", "recipient", "phone", "bank", "account", "holder",
     "amount", "id", "orderno", "address", "returnphone", "image", "orderdate" >>

\* A keyed record is the sequence of its << key, value >> pairs in the order of
\* Object.keys; no key occurs twice.
HasKey(orderData, key) == \E n \in 1..Len(orderData) : orderData[n][1] = key

\* orderData[header] || ''
Field(orderData, header) ==
  IF HasKey(orderData, header)
  THEN OrDefault(orderData[CHOOSE n \in 1..Len(orderData) : orderData[n][1] = header][2])
  ELSE ""

\* The record's own fields are read first, the computed ones used for what it lacks.
RowData_RecordFirst(headers, orderData, imageUrl, stamp) ==
  [n \in 1..Len(headers) |->
     IF HasKey(orderData, headers[n]) THEN Field(orderData, headers[n])
     ELSE IF headers[n] = "orderdate" THEN stamp
     ELSE IF headers[n] = "image" THEN imageUrl
     ELSE ""]

\* headers.map(header => ...): the order date and the image link are computed,
\* every other cell is the record's field of that name.
RowData(headers, orderData, imageUrl, stamp) ==
  [n \in 1..Len(headers) |->
     IF headers[n] = "orderdate" THEN stamp
     ELSE IF headers[n] = "image" THEN imageUrl
     ELSE Field(orderData, headers[n])]

\* Object.keys(orderData)
Keys(orderData) == [n \in 1..Len(orderData) |-> orderData[n][1]]

\* array.includes(x)
Includes(array, x) == \E n \in 1..Len(array) : array[n] = x

\* array.indexOf(x), counted from 1; 0 when absent.
IndexOf(array, x) ==
  IF Includes(array, x) THEN SetMin({n \in 1..Len(array) : array[n] = x}) ELSE 0

\* array.splice(at, 0, x) with `at` in 0..array.length: x is put after the
\* first `at` entries.
Splice(array, at, x) ==
  SubSeq(array, 1, at) \o << x >> \o SubSeq(array, at + 1, Len(array))

\* getOrCreateHeaders on an empty row 1: the standard list, every key of the
\* record it lacks put before its last two entries, in the order of the keys.
RECURSIVE AllHeaders(_, _, _)
AllHeaders(allHeaders, orderKeys, n) ==
  IF n > Len(orderKeys) THEN allHeaders
  ELSE IF Includes(allHeaders, orderKeys[n])
       THEN AllHeaders(allHeaders, orderKeys, n + 1)
       ELSE AllHeaders(Splice(allHeaders, Len(allHeaders) - 2, orderKeys[n]), orderKeys, n + 1)

\* Every key the row lacks is put at its end.
RECURSIVE ExtendHeaders_Push(_, _, _)
ExtendHeaders_Push(existingHeaders, orderKeys, n) ==
  IF n > Len(orderKeys) THEN existingHeaders
  ELSE IF /\ ~Includes(existingHeaders, orderKeys[n])
          /\ orderKeys[n] # "image"
          /\ orderKeys[n] # "orderdate"
       THEN ExtendHeaders_Push(Append(existingHeaders, orderKeys[n]), orderKeys, n + 1)
       ELSE ExtendHeaders_Push(existingHeaders, orderKeys, n + 1)

\* part_001, on a row 1 that holds something: every key of the record the row
\* lacks, the two computed names apart, is put before the image column, or at
\* the end when there is no image column.
RECURSIVE ExtendHeaders(_, _, _)
ExtendHeaders(existingHeaders, orderKeys, n) ==
  IF n > Len(orderKeys) THEN existingHeaders
  ELSE IF /\ ~Includes(existingHeaders, orderKeys[n])
          /\ orderKeys[n] # "image"
          /\ orderKeys[n] # "orderdate"
       THEN ExtendHeaders(
              IF IndexOf(existingHeaders, "image") > 0
              THEN Splice(existingHeaders, IndexOf(existingHeaders, "image") - 1, orderKeys[n])
              ELSE Append(existingHeaders, orderKeys[n]),
              orderKeys, n + 1)
       ELSE ExtendHeaders(existingHeaders, orderKeys, n + 1)

\* The rows are written from the last occupied row on.
AppendRows_OnLast(g, rows) == WriteAt(g, Max(Len(g), 1), rows)

\* values.append on the range A:Z of a tab whose occupied rows are contiguous
\* from row 1: the rows go below the last occupied row.
AppendRows(g, rows) == TrimGrid(g \o [n \in 1..Len(rows) |-> TrimRow(rows[n])])

\* ---------------------------------------------------------------- insertion point
\* row.every(cell => !cell): a cell of spaces counts as content.
IsBlankRow_NoTrim(row) == \A c \in 1..Len(row) : row[c] = ""

IsBlankRow(row) == \A c \in 1..Len(row) : Trim(row[c]) = ""

\* for (let i = 1; i < allData.length; i++) { if (blank) { nextRow = i + 1; break; } }
\* with i the 0-based index of the loop; `dflt` is allData.length + 1.
RECURSIVE ScanBlank(_, _, _)
ScanBlank(allData, i, dflt) ==
  IF i >= Len(allData) THEN dflt
  ELSE IF IsBlankRow(allData[i + 1]) THEN i + 1
  ELSE ScanBlank(allData, i + 1, dflt)

\* The rows start on the last row read, below the header at least.
ResolveNextRow_LastRow(allData) == Max(Len(allData), 2)

ResolveNextRow(allData) == ScanBlank(allData, 1, Len(allData) + 1)

\* ---------------------------------------------------------------- state
VARIABLES
  tokens,        \* the OAuth credential is held
  tabs,          \* titles of the spreadsheet's tabs, in order
  grid,          \* cells of the tab named Manager
  drive,         \* drive[id]: name of the file with that id, and whether anyone may read it
  clock,         \* wall clock: it moves on between two batches' row building
  filesLeft,     \* attachments the clients have yet to send
  faults,        \* store calls that have failed so far for outside reasons
  pc,            \* pc[r]: the await request r is suspended at
  manager,       \* req.body.manager
  orders,        \* JSON.parse(req.body.orders)
  nfiles,        \* req.files.length
  up,            \* up[r][i]: state and file id of uploadPromises[i]
  doneOrder,     \* indices of uploadPromises in the order they resolved
  allRows,       \* rows built from uploadResults
  allData,       \* the grid as read from A:O
  nextRow,       \* resolved start row
  resp,          \* HTTP status sent, 0 while none
  errorMessage,  \* the `error` field of the response sent, "" while none
  calls,         \* history: store calls made on behalf of r, in the order served
  row1Before,    \* history: row 1 when ensureHeaders read it
  row1After      \* history: row 1 when ensureHeaders returned

\* A function of the program applied on its own, outside any request.
VARIABLES
  args,          \* the arguments it is applied to
  result         \* whether it has returned, and what

\* The earlier revisions of the handler (part_000, part_001): one record at a
\* time, keyed records, values.append.  One request of them runs at a time.
VARIABLES
  revision,      \* the revision that is running
  kpc,           \* the await the keyed handler is suspended at
  korders,       \* JSON.parse(req.body.orders): keyed records
  knfiles,       \* req.files.length
  ki,            \* the loop's i, counted from 1
  kurl,          \* imageUrl of the record in hand
  kheaders,      \* headers: what getOrCreateHeaders is about to write or has returned
  kresp,         \* HTTP status sent, 0 while none
  subs,          \* submissions made so far
  kbase          \* history: the tab's cells when the batch was submitted

keyedVars == << revision, kpc, korders, knfiles, ki, kurl, kheaders, kresp, subs, kbase >>

\* What the handler of src/server.js never touches.
otherVars == << args, result, keyedVars >>

vars == << tokens, tabs, grid, drive, clock, filesLeft, faults, pc, manager, orders, nfiles,
           up, doneOrder, allRows, allData, nextRow, resp, errorMessage, calls, row1Before,
           row1After, otherVars >>

storeVars == << tabs, grid, drive >>
reqVars == << manager, orders, nfiles >>
envVars == << clock, filesLeft >>
hdrVars == << row1Before, row1After >>
rowVars == << allRows, allData, nextRow >>

TabExists == \E n \in 1..Len(tabs) : tabs[n] = Manager

Call(op, ok) == [op |-> op, ok |-> ok]

Logged(r, op, ok) == calls' = [calls EXCEPT ![r] = Append(@, Call(op, ok))]

\* A store call may fail for reasons outside the model (network, quota).
MayFail == faults < MaxFaults

\* ---------------------------------------------------------------- initial states
\* What an operator may have left in row 1 and in the rows below it.
InitRow1s ==
  { << >>,
    FIXED_HEADERS,
    << FIXED_HEADERS[1], "memo" >>,
    FIXED_HEADERS \o << "extra" >>,
    << "old", "memo" >>,
    << "", "memo" >> }

InitBodyRows == { << >>, << "A" >>, << " " >> }

RECURSIVE SeqsUpTo(_, _)
SeqsUpTo(S, n) ==
  IF n = 0 THEN { << >> }
  ELSE LET shorter == SeqsUpTo(S, n - 1)
       IN  shorter \cup { Append(q, x) : q \in shorter, x \in S }

\* The tab of the gap-reuse example: header, "A", a blank row, "B".
GapExample == << FIXED_HEADERS, << "A" >>, << >>, << "B" >> >>

InitGrids ==
  { TrimGrid(<< h >> \o body) : h \in InitRow1s, body \in SeqsUpTo(InitBodyRows, MaxInitRows) }
    \cup { GapExample }

NoUpload == [st |-> "resolved", id |-> 0]

NotApplied == [done |-> FALSE, row |-> << >>]

\* The keyed handler is not running.
KeyedOff ==
  /\ revision = "server.js"
  /\ kpc = "off"
  /\ korders = << >>
  /\ knfiles = 0
  /\ ki = 0
  /\ kurl = ""
  /\ kheaders = << >>
  /\ kresp = 0
  /\ subs = 0
  /\ kbase = << >>

\* No function is being applied on its own.
OthersIdle ==
  /\ args = << >>
  /\ result = NotApplied
  /\ KeyedOff

InitCommon ==
  /\ tokens \in BOOLEAN
  /\ drive = << >>
  /\ clock = 0
  /\ faults = 0
  /\ manager = [r \in Reqs |-> ""]
  /\ orders = [r \in Reqs |-> << >>]
  /\ nfiles = [r \in Reqs |-> 0]
  /\ up = [r \in Reqs |-> << >>]
  /\ doneOrder = [r \in Reqs |-> << >>]
  /\ allRows = [r \in Reqs |-> << >>]
  /\ allData = [r \in Reqs |-> << >>]
  /\ nextRow = [r \in Reqs |-> 0]
  /\ resp = [r \in Reqs |-> 0]
  /\ errorMessage = [r \in Reqs |-> ""]
  /\ calls = [r \in Reqs |-> << >>]
  /\ row1Before = [r \in Reqs |-> << >>]
  /\ row1After = [r \in Reqs |-> << >>]

\* Concurrent requests on a tab that is missing, empty, or holds the header
\* and some rows.
ConcGrids ==
  { << >>,
    << FIXED_HEADERS >>,
    GapExample }

Init ==
  /\ InitCommon
  /\ OthersIdle
  /\ filesLeft = MaxFiles
  /\ pc = [r \in Reqs |-> "idle"]
  /\ \/ tabs = << "Sheet1" >> /\ grid = << >>
     \/ tabs = << "Sheet1", Manager >> /\ grid \in ConcGrids

\* One request on every tab content an operator may have left.
InitOne ==
  /\ InitCommon
  /\ OthersIdle
  /\ filesLeft = MaxFilesOne
  /\ pc = [r \in Reqs |-> IF r = 1 THEN "idle" ELSE "off"]
  /\ \/ tabs = << "Sheet1" >> /\ grid = << >>
     \/ tabs = << "Sheet1", Manager >> /\ grid \in InitGrids

\* One request with every attachment the clients send.
InitUp ==
  /\ InitCommon
  /\ OthersIdle
  /\ filesLeft = MaxFiles
  /\ pc = [r \in Reqs |-> IF r = 1 THEN "idle" ELSE "off"]
  /\ \/ tabs = << "Sheet1" >> /\ grid = << >>
     \/ tabs = << "Sheet1", Manager >> /\ grid \in ConcGrids

\* Requests that arrive one after the other's response, on each kind of row 1.
SeqGrids == { TrimGrid(<< h >>) : h \in InitRow1s } \cup { GapExample }

InitSeq ==
  /\ InitCommon
  /\ OthersIdle
  /\ filesLeft = MaxFilesOne
  /\ pc = [r \in Reqs |-> IF r = 1 THEN "idle" ELSE "queued"]
  /\ \/ tabs = << "Sheet1" >> /\ grid = << >>
     \/ tabs = << "Sheet1", Manager >> /\ grid \in SeqGrids

\* ---------------------------------------------------------------- the handler
Respond(r, status) ==
  /\ pc' = [pc EXCEPT ![r] = "done"]
  /\ resp' = [resp EXCEPT ![r] = status]

\* error.message of the error a failed call throws.
ErrorOf(op) == op \o " failed"

\* res.status(...).json({ error: message })
Sent(r, message) == errorMessage' = [errorMessage EXCEPT ![r] = message]

\* app.post('/api/submit-orders'): the guards, up to the first await.  Requests
\* are numbered in their order of arrival.
Submit(r) ==
  /\ pc[r] = "idle"
  /\ \A q \in 1..(r - 1) : pc[q] # "idle"
  /\ IF ~tokens
     THEN \* line 157: answered before the body is looked at
          /\ Respond(r, 401)
          /\ Sent(r, "auth required")
          /\ UNCHANGED << manager, orders, nfiles, filesLeft >>
     ELSE \E mgr \in {"", Manager}, valid \in BOOLEAN :
            /\ manager' = [manager EXCEPT ![r] = mgr]
            /\ IF ~valid
               THEN \* line 162: JSON.parse throws, the catch answers
                    /\ Respond(r, 500)
                    /\ Sent(r, ErrorOf("JSON.parse"))
                    /\ UNCHANGED << orders, nfiles, filesLeft >>
               ELSE IF mgr = ""
               THEN \* line 165: the parsed orders and the files are dropped
                    /\ Respond(r, 400)
                    /\ Sent(r, "manager required")
                    /\ UNCHANGED << orders, nfiles, filesLeft >>
               ELSE \E k \in 0..MaxBatch, m \in 0..MaxBatch :
                      /\ m <= filesLeft
                      /\ filesLeft' = filesLeft - m
                      /\ orders' = [orders EXCEPT ![r] = Orders(r, k)]
                      /\ nfiles' = [nfiles EXCEPT ![r] = m]
                      /\ pc' = [pc EXCEPT ![r] = "sheet_get"]
                      /\ UNCHANGED << resp, errorMessage >>
  /\ UNCHANGED << tokens, storeVars, clock, faults, up, doneOrder, rowVars, calls, hdrVars >>
  /\ UNCHANGED otherVars

\* /auth/callback stores the credential.
AuthCallback ==
  /\ ~tokens
  /\ tokens' = TRUE
  /\ UNCHANGED << storeVars, envVars, faults, pc, reqVars, up, doneOrder, rowVars, resp,
                  calls, hdrVars >>
  /\ UNCHANGED otherVars
  /\ UNCHANGED errorMessage

\* The tab is created without looking at the listing.
SheetsGetOk_NoCheck(r) ==
  /\ pc[r] = "sheet_get"
  /\ pc' = [pc EXCEPT ![r] = "add_sheet"]
  /\ Logged(r, "sheets.get", TRUE)
  /\ UNCHANGED << tokens, storeVars, envVars, faults, reqVars, up, doneOrder, rowVars, resp,
                  hdrVars >>
  /\ UNCHANGED otherVars
  /\ UNCHANGED errorMessage

\* ensureSheetExists: sheets.spreadsheets.get answers.
SheetsGetOk(r) ==
  /\ pc[r] = "sheet_get"
  /\ pc' = [pc EXCEPT ![r] = IF TabExists THEN "hdr_get" ELSE "add_sheet"]
  /\ Logged(r, "sheets.get", TRUE)
  /\ UNCHANGED << tokens, storeVars, envVars, faults, reqVars, up, doneOrder, rowVars, resp,
                  hdrVars >>
  /\ UNCHANGED otherVars
  /\ UNCHANGED errorMessage

\* No catch block: a failed listing ends the batch.
SheetsGetFail_Raise(r) ==
  /\ pc[r] = "sheet_get"
  /\ MayFail
  /\ faults' = faults + 1
  /\ Respond(r, 500)
  /\ Logged(r, "sheets.get", FALSE)
  /\ UNCHANGED << tokens, storeVars, envVars, reqVars, up, doneOrder, rowVars, hdrVars >>
  /\ UNCHANGED otherVars
  /\ Sent(r, ErrorOf("sheets.get"))

\* ensureSheetExists: sheets.spreadsheets.get throws; the catch logs and returns.
SheetsGetFail(r) ==
  /\ pc[r] = "sheet_get"
  /\ MayFail
  /\ faults' = faults + 1
  /\ pc' = [pc EXCEPT ![r] = "hdr_get"]
  /\ Logged(r, "sheets.get", FALSE)
  /\ UNCHANGED << tokens, storeVars, envVars, reqVars, up, doneOrder, rowVars, resp, hdrVars >>
  /\ UNCHANGED otherVars
  /\ UNCHANGED errorMessage

\* ensureSheetExists: addSheet creates the tab.
AddSheetOk(r) ==
  /\ pc[r] = "add_sheet"
  /\ ~TabExists
  /\ tabs' = Append(tabs, Manager)
  /\ pc' = [pc EXCEPT ![r] = "hdr_get"]
  /\ Logged(r, "addSheet", TRUE)
  /\ UNCHANGED << tokens, grid, drive, envVars, faults, reqVars, up,
                  doneOrder, rowVars, resp, hdrVars >>
  /\ UNCHANGED otherVars
  /\ UNCHANGED errorMessage

\* ensureSheetExists: addSheet throws (the title is taken by now, or an outside
\* failure); the catch logs and returns.
AddSheetFail(r) ==
  /\ pc[r] = "add_sheet"
  /\ TabExists \/ MayFail
  /\ faults' = IF TabExists THEN faults ELSE faults + 1
  /\ pc' = [pc EXCEPT ![r] = "hdr_get"]
  /\ Logged(r, "addSheet", FALSE)
  /\ UNCHANGED << tokens, storeVars, envVars, reqVars, up, doneOrder, rowVars, resp, hdrVars >>
  /\ UNCHANGED otherVars
  /\ UNCHANGED errorMessage

\* ---------------------------------------------------------------- ensureHeaders
\* response.data.values ? response.data.values[0] : []  for the range A1:O1.
ExistingHeaders(g) ==
  LET values == ReadRange(<< RowAt(g, 1) >>, NCols)
  IN  IF values = << >> THEN << >> ELSE values[1]

\* The comparison reads the wrong cell of FIXED_HEADERS.
HeadersStale_WrongIndex(existingHeaders) ==
  Len(existingHeaders) = 0 \/ existingHeaders[1] # FIXED_HEADERS[2]

\* The whole row is compared, not its first cell.
HeadersStale_FullRow(existingHeaders) == existingHeaders # FIXED_HEADERS

\* Only an empty row 1 counts as stale.
HeadersStale_OnlyEmpty(existingHeaders) == Len(existingHeaders) = 0

\* existingHeaders.length === 0 || existingHeaders[0] !== FIXED_HEADERS[0]
HeadersStale(existingHeaders) ==
  Len(existingHeaders) = 0 \/ existingHeaders[1] # FIXED_HEADERS[1]

\* The header written without its two trailing columns.
WriteHeaders_Short(g) == WriteAt(g, 1, << SubSeq(FIXED_HEADERS, 1, NFixed) >>)

\* The tab is cleared and the header written to it.
WriteHeaders_Clear(g) == << FIXED_HEADERS >>

\* values.update of range A1 with [FIXED_HEADERS].
WriteHeaders(g) == WriteAt(g, 1, << FIXED_HEADERS >>)

\* orders.map(async ...) runs every callback up to its first await: a record
\* with a file has its drive.files.create in flight, one without is resolved.
StartUploads(r) ==
  /\ up' = [up EXCEPT ![r] =
              [i \in 1..Len(orders[r]) |->
                 IF i <= nfiles[r] THEN [st |-> "creating", id |-> 0] ELSE NoUpload]]
  /\ doneOrder' = [doneOrder EXCEPT ![r] =
                     [j \in 1..(Len(orders[r]) - IF nfiles[r] < Len(orders[r])
                                                 THEN nfiles[r] ELSE Len(orders[r]))
                        |-> nfiles[r] + j]]

\* ensureHeaders returns to the handler, which starts the uploads.
HeadersReturn(r, g) ==
  /\ row1After' = [row1After EXCEPT ![r] = RowAt(g, 1)]
  /\ pc' = [pc EXCEPT ![r] = "uploads"]
  /\ StartUploads(r)

\* The read of A1:O1 answers.
HdrGetOk(r) ==
  /\ pc[r] = "hdr_get"
  /\ TabExists
  /\ row1Before' = [row1Before EXCEPT ![r] = RowAt(grid, 1)]
  /\ Logged(r, "hdr.get", TRUE)
  /\ IF HeadersStale(ExistingHeaders(grid))
     THEN /\ pc' = [pc EXCEPT ![r] = "hdr_put"]
          /\ UNCHANGED << row1After, up, doneOrder >>
     ELSE HeadersReturn(r, grid)
  /\ UNCHANGED << tokens, storeVars, envVars, faults, reqVars, rowVars, resp >>
  /\ UNCHANGED otherVars
  /\ UNCHANGED errorMessage

\* No catch block: a failed read of A1:O1 ends the batch.
HdrGetFail_Abort(r) ==
  /\ pc[r] = "hdr_get"
  /\ ~TabExists \/ MayFail
  /\ faults' = IF ~TabExists THEN faults ELSE faults + 1
  /\ Respond(r, 500)
  /\ Logged(r, "hdr.get", FALSE)
  /\ UNCHANGED << tokens, storeVars, envVars, reqVars, up, doneOrder, rowVars, hdrVars >>
  /\ UNCHANGED otherVars
  /\ Sent(r, ErrorOf("hdr.get"))

\* The read of A1:O1 throws (no such tab, or an outside failure): to the catch.
HdrGetFail(r) ==
  /\ pc[r] = "hdr_get"
  /\ ~TabExists \/ MayFail
  /\ faults' = IF ~TabExists THEN faults ELSE faults + 1
  /\ pc' = [pc EXCEPT ![r] = "hdr_force"]
  /\ Logged(r, "hdr.get", FALSE)
  /\ UNCHANGED << tokens, storeVars, envVars, reqVars, up, doneOrder, rowVars, resp, hdrVars >>
  /\ UNCHANGED otherVars
  /\ UNCHANGED errorMessage

\* The header write of the try block succeeds.
HdrPutOk(r) ==
  /\ pc[r] = "hdr_put"
  /\ TabExists
  /\ grid' = WriteHeaders(grid)
  /\ Logged(r, "hdr.put", TRUE)
  /\ HeadersReturn(r, grid')
  /\ UNCHANGED << tokens, tabs, drive, envVars, faults, reqVars, rowVars, resp, row1Before >>
  /\ UNCHANGED otherVars
  /\ UNCHANGED errorMessage

\* The header write of the try block throws: to the catch.
HdrPutFail(r) ==
  /\ pc[r] = "hdr_put"
  /\ MayFail
  /\ faults' = faults + 1
  /\ pc' = [pc EXCEPT ![r] = "hdr_force"]
  /\ Logged(r, "hdr.put", FALSE)
  /\ UNCHANGED << tokens, storeVars, envVars, reqVars, up, doneOrder, rowVars, resp, hdrVars >>
  /\ UNCHANGED otherVars
  /\ UNCHANGED errorMessage

\* The forced header write of the catch block succeeds.
HdrForceOk(r) ==
  /\ pc[r] = "hdr_force"
  /\ TabExists
  /\ grid' = WriteHeaders(grid)
  /\ Logged(r, "hdr.force", TRUE)
  /\ HeadersReturn(r, grid')
  /\ UNCHANGED << tokens, tabs, drive, envVars, faults, reqVars, rowVars, resp, row1Before >>
  /\ UNCHANGED otherVars
  /\ UNCHANGED errorMessage

\* The forced header write throws: ensureHeaders raises into the handler's catch.
HdrForceFail(r) ==
  /\ pc[r] = "hdr_force"
  /\ ~TabExists \/ MayFail
  /\ faults' = IF ~TabExists THEN faults ELSE faults + 1
  /\ Respond(r, 500)
  /\ Logged(r, "hdr.force", FALSE)
  /\ UNCHANGED << tokens, storeVars, envVars, reqVars, up, doneOrder, rowVars, hdrVars >>
  /\ UNCHANGED otherVars
  /\ Sent(r, ErrorOf("hdr.force"))

\* ---------------------------------------------------------------- uploads
\* `주문_${orderValues[1] || 'unknown'}_${Date.now()}_${i}.<ext>`: the name
\* carries the index of the record within its batch.
FileName(r, i) == "order_" \o OrderTag(r, i) \o "_" \o ToString(i - 1)

SetUp(r, i, st, id) == up' = [up EXCEPT ![r][i] = [st |-> st, id |-> id]]

\* drive.files.create of attachment i answers with a new file.
DriveCreateOk(r, i) ==
  /\ i \in 1..Len(up[r])
  /\ up[r][i].st = "creating"
  /\ drive' = Append(drive, [name |-> FileName(r, i), public |-> FALSE])
  /\ SetUp(r, i, "perm", Len(drive) + 1)
  /\ Logged(r, "files.create", TRUE)
  /\ UNCHANGED << tokens, tabs, grid, envVars, faults, pc, reqVars,
                  doneOrder, rowVars, resp, hdrVars >>
  /\ UNCHANGED otherVars
  /\ UNCHANGED errorMessage

\* drive.files.create throws: uploadPromises[i] rejects.
DriveCreateFail(r, i) ==
  /\ i \in 1..Len(up[r])
  /\ up[r][i].st = "creating"
  /\ MayFail
  /\ faults' = faults + 1
  /\ SetUp(r, i, "rejected", 0)
  /\ Logged(r, "files.create", FALSE)
  /\ UNCHANGED << tokens, storeVars, envVars, pc, reqVars, doneOrder, rowVars, resp, hdrVars >>
  /\ UNCHANGED otherVars
  /\ UNCHANGED errorMessage

\* drive.permissions.create answers: uploadPromises[i] resolves.
PermCreateOk(r, i) ==
  /\ i \in 1..Len(up[r])
  /\ up[r][i].st = "perm"
  /\ drive' = [drive EXCEPT ![up[r][i].id].public = TRUE]
  /\ SetUp(r, i, "resolved", up[r][i].id)
  /\ doneOrder' = [doneOrder EXCEPT ![r] = Append(@, i)]
  /\ Logged(r, "permissions.create", TRUE)
  /\ UNCHANGED << tokens, tabs, grid, envVars, faults, pc, reqVars,
                  rowVars, resp, hdrVars >>
  /\ UNCHANGED otherVars
  /\ UNCHANGED errorMessage

\* drive.permissions.create throws: uploadPromises[i] rejects, the file stays.
PermCreateFail(r, i) ==
  /\ i \in 1..Len(up[r])
  /\ up[r][i].st = "perm"
  /\ MayFail
  /\ faults' = faults + 1
  /\ SetUp(r, i, "rejected", up[r][i].id)
  /\ Logged(r, "permissions.create", FALSE)
  /\ UNCHANGED << tokens, storeVars, envVars, pc, reqVars, doneOrder, rowVars, resp, hdrVars >>
  /\ UNCHANGED otherVars
  /\ UNCHANGED errorMessage

\* return { orderValues, imageUrl, index: i } of uploadPromises[i].
UploadResult(r, i) ==
  [orderValues |-> orders[r][i],
   imageUrl |-> IF up[r][i].id = 0 THEN "" ELSE Url(up[r][i].id),
   index |-> i]

\* The results in the order the promises settled.
UploadResults_ByCompletion(r) ==
  [j \in 1..Len(orders[r]) |-> UploadResult(r, doneOrder[r][j])]

\* await Promise.all(uploadPromises): the results in the order of the promises.
UploadResults(r) == [i \in 1..Len(orders[r]) |-> UploadResult(r, i)]

\* uploadResults.map(...) with the clock reading t.
AllRows(r, t) ==
  LET results == UploadResults(r)
  IN  [i \in 1..Len(results) |->
         BuildRow(results[i].orderValues, results[i].imageUrl, Stamp(t))]

\* Promise.allSettled in place of Promise.all: a rejection does not stop the batch.
Join_AllSettled(r) ==
  /\ pc[r] = "uploads"
  /\ \A i \in 1..Len(up[r]) : up[r][i].st \in {"resolved", "rejected"}
  /\ allRows' = [allRows EXCEPT ![r] = AllRows(r, clock)]
  /\ clock' = clock + 1
  /\ IF Len(orders[r]) > 0
     THEN pc' = [pc EXCEPT ![r] = "range_get"] /\ UNCHANGED resp
     ELSE Respond(r, 200)
  /\ UNCHANGED << tokens, storeVars, filesLeft, faults, reqVars, up, doneOrder, allData,
                  nextRow, calls, hdrVars >>
  /\ UNCHANGED otherVars
  /\ UNCHANGED errorMessage

\* The handler goes on as soon as one upload promise has resolved.
Join_FirstResolved(r) ==
  /\ pc[r] = "uploads"
  /\ \/ up[r] = << >>
     \/ \E i \in 1..Len(up[r]) : up[r][i].st = "resolved"
  /\ allRows' = [allRows EXCEPT ![r] = AllRows(r, clock)]
  /\ clock' = clock + 1
  /\ IF Len(orders[r]) > 0
     THEN pc' = [pc EXCEPT ![r] = "range_get"] /\ UNCHANGED resp
     ELSE Respond(r, 200)
  /\ UNCHANGED << tokens, storeVars, filesLeft, faults, reqVars, up, doneOrder, allData,
                  nextRow, calls, hdrVars >>
  /\ UNCHANGED otherVars
  /\ UNCHANGED errorMessage

\* The range is read and the write sent also for a batch without records.
Join_AlwaysWrite(r) ==
  /\ pc[r] = "uploads"
  /\ \A i \in 1..Len(up[r]) : up[r][i].st = "resolved"
  /\ allRows' = [allRows EXCEPT ![r] = AllRows(r, clock)]
  /\ clock' = clock + 1
  /\ pc' = [pc EXCEPT ![r] = "range_get"]
  /\ UNCHANGED << tokens, storeVars, filesLeft, faults, reqVars, up, doneOrder, allData,
                  nextRow, resp, calls, hdrVars >>
  /\ UNCHANGED otherVars
  /\ UNCHANGED errorMessage

\* Promise.all resolves: the rows are built; with rows, the range read is sent,
\* without, the success response.
Join(r) ==
  /\ pc[r] = "uploads"
  /\ \A i \in 1..Len(up[r]) : up[r][i].st = "resolved"
  /\ allRows' = [allRows EXCEPT ![r] = AllRows(r, clock)]
  /\ clock' = clock + 1
  /\ IF Len(orders[r]) > 0
     THEN pc' = [pc EXCEPT ![r] = "range_get"] /\ UNCHANGED resp
     ELSE Respond(r, 200)
  /\ UNCHANGED << tokens, storeVars, filesLeft, faults, reqVars, up, doneOrder, allData,
                  nextRow, calls, hdrVars >>
  /\ UNCHANGED otherVars
  /\ UNCHANGED errorMessage

\* Promise.all rejects with the first rejection: to the handler's catch.
Reject(r) ==
  /\ pc[r] = "uploads"
  /\ \E i \in 1..Len(up[r]) : up[r][i].st = "rejected"
  /\ Respond(r, 500)
  /\ UNCHANGED << tokens, storeVars, envVars, faults, reqVars, up, doneOrder, rowVars,
                  calls, hdrVars >>
  /\ UNCHANGED otherVars
  /\ \E i \in 1..Len(up[r]) :
       /\ up[r][i].st = "rejected"
       /\ Sent(r, ErrorOf(IF up[r][i].id = 0 THEN "files.create" ELSE "permissions.create"))

\* ---------------------------------------------------------------- the row write
\* The read of A:O answers; the start row is resolved and the write sent.
RangeGetOk(r) ==
  /\ pc[r] = "range_get"
  /\ TabExists
  /\ allData' = [allData EXCEPT ![r] = ReadRange(grid, NCols)]
  /\ nextRow' = [nextRow EXCEPT ![r] = ResolveNextRow(ReadRange(grid, NCols))]
  /\ pc' = [pc EXCEPT ![r] = "rows_put"]
  /\ Logged(r, "range.get", TRUE)
  /\ UNCHANGED << tokens, storeVars, envVars, faults, reqVars, up, doneOrder, allRows,
                  resp, hdrVars >>
  /\ UNCHANGED otherVars
  /\ UNCHANGED errorMessage

\* The read of A:O throws: to the handler's catch.
RangeGetFail(r) ==
  /\ pc[r] = "range_get"
  /\ MayFail
  /\ faults' = faults + 1
  /\ Respond(r, 500)
  /\ Logged(r, "range.get", FALSE)
  /\ UNCHANGED << tokens, storeVars, envVars, reqVars, up, doneOrder, rowVars, hdrVars >>
  /\ UNCHANGED otherVars
  /\ Sent(r, ErrorOf("range.get"))

\* values.update of range A<nextRow> with allRows succeeds; success response.
RowsPutOk(r) ==
  /\ pc[r] = "rows_put"
  /\ TabExists
  /\ grid' = WriteAt(grid, nextRow[r], allRows[r])
  /\ Respond(r, 200)
  /\ Logged(r, "rows.put", TRUE)
  /\ UNCHANGED << tokens, tabs, drive, envVars, faults, reqVars, up, doneOrder, rowVars,
                  hdrVars >>
  /\ UNCHANGED otherVars
  /\ UNCHANGED errorMessage

\* The failed write is sent again.
RowsPutFail_Retry(r) ==
  /\ pc[r] = "rows_put"
  /\ MayFail
  /\ faults' = faults + 1
  /\ Logged(r, "rows.put", FALSE)
  /\ UNCHANGED << tokens, storeVars, envVars, pc, resp, reqVars, up, doneOrder, rowVars,
                  hdrVars >>
  /\ UNCHANGED otherVars
  /\ UNCHANGED errorMessage

\* values.update of the rows throws: to the handler's catch.
RowsPutFail(r) ==
  /\ pc[r] = "rows_put"
  /\ MayFail
  /\ faults' = faults + 1
  /\ Respond(r, 500)
  /\ Logged(r, "rows.put", FALSE)
  /\ UNCHANGED << tokens, storeVars, envVars, reqVars, up, doneOrder, rowVars, hdrVars >>
  /\ UNCHANGED otherVars
  /\ Sent(r, ErrorOf("rows.put"))

\* ---------------------------------------------------------------- specifications
Next ==
  \/ AuthCallback
  \/ \E r \in Reqs :
       \/ Submit(r)
       \/ SheetsGetOk(r) \/ SheetsGetFail(r)
       \/ AddSheetOk(r) \/ AddSheetFail(r)
       \/ HdrGetOk(r) \/ HdrGetFail(r)
       \/ HdrPutOk(r) \/ HdrPutFail(r)
       \/ HdrForceOk(r) \/ HdrForceFail(r)
       \/ Join(r) \/ Reject(r)
       \/ RangeGetOk(r) \/ RangeGetFail(r)
       \/ RowsPutOk(r) \/ RowsPutFail(r)
       \/ \E i \in 1..MaxBatch :
            \/ DriveCreateOk(r, i) \/ DriveCreateFail(r, i)
            \/ PermCreateOk(r, i) \/ PermCreateFail(r, i)

\* The client sends request r once every earlier request has been answered.
Arrive(r) ==
  /\ pc[r] = "queued"
  /\ \A q \in 1..(r - 1) : pc[q] = "done"
  /\ pc' = [pc EXCEPT ![r] = "idle"]
  /\ UNCHANGED << tokens, storeVars, envVars, faults, reqVars, up, doneOrder, rowVars, resp,
                  calls, hdrVars >>
  /\ UNCHANGED otherVars
  /\ UNCHANGED errorMessage

NextSeq == Next \/ \E r \in Reqs : Arrive(r)

\* Concurrent requests.
Spec == Init /\ [][Next]_vars

\* One request, on every initial tab content.
SpecOne == InitOne /\ [][Next]_vars

\* One request, its uploads in every order.
SpecUp == InitUp /\ [][Next]_vars

\* Requests one after the other.
SpecSeq == InitSeq /\ [][NextSeq]_vars

\* Concurrent requests on a tab that is missing or empty at the start.
InitFresh == Init /\ grid = << >>

SpecFresh == InitFresh /\ [][Next]_vars

\* Requests one after the other, on a tab that is missing or empty at the start.
InitSeqFresh == InitSeq /\ grid = << >>

SpecSeqFresh == InitSeqFresh /\ [][NextSeq]_vars

\* An operator of the spreadsheet clears the cells of the tab while requests
\* are served: the next read of the tab returns no values.
OperatorClear ==
  /\ TabExists
  /\ grid # << >>
  /\ grid' = << >>
  /\ UNCHANGED << tokens, tabs, drive, envVars, faults, pc, reqVars, up, doneOrder, rowVars,
                  resp, calls, hdrVars >>
  /\ UNCHANGED otherVars
  /\ UNCHANGED errorMessage

NextEdited == Next \/ OperatorClear

\* One request, on a tab an operator edits meanwhile.
SpecEdited == InitUp /\ [][NextEdited]_vars

\* ---------------------------------------------------------------- the row mapping on its own
\* Entry c of a positional record: a string that says where it stood.
Val(c) == "v" \o ToString(c)

\* Positions left empty in a record.
HoleSets == { {}, {1}, {2}, {NFixed}, {NFixed + 1}, {1, NFixed} }

\* Arrays of strings shorter than, as long as and longer than the columns A..M.
PositionalRecords ==
  { [c \in 1..len |-> IF c \in holes THEN "" ELSE Val(c)] :
      len \in 0..(NFixed + MaxExtra), holes \in HoleSets }

\* The handler is not running.
HandlerOff ==
  /\ InitCommon
  /\ tokens = TRUE
  /\ filesLeft = 0
  /\ pc = [r \in Reqs |-> "off"]
  /\ tabs = << "Sheet1" >>
  /\ grid = << >>

InitMap ==
  /\ HandlerOff
  /\ args \in [orderValues : PositionalRecords, imageUrl : {"", Url(1)}, stamp : {Stamp(0)}]
  /\ result = NotApplied
  /\ KeyedOff

\* The callback of uploadResults.map is applied to one upload result.
MapRow ==
  /\ ~result.done
  /\ result' = [done |-> TRUE,
                row |-> BuildRow(args.orderValues, args.imageUrl, args.stamp)]
  /\ UNCHANGED << tokens, storeVars, envVars, faults, pc, reqVars, up, doneOrder, rowVars,
                  resp, calls, hdrVars, args, keyedVars >>
  /\ UNCHANGED errorMessage

NextMap == MapRow

\* The positional row mapping applied to records of every length.
SpecMap == InitMap /\ [][NextMap]_vars

\* ---------------------------------------------------------------- the keyed row mapping on its own
\* Keys a keyed record may carry, in the order the form sends them: two standard
\* fields, one the standard list lacks, and the two computed columns' names.
KeyOrder == << "product", "recipient", "memo", "image", "orderdate" >>

\* The value a record holds under a key, when not empty.
FieldVal(key) == key \o "!"

Present(pair) == pair[2] # "<absent>"

\* Every record over KeyOrder: each key absent, empty or set.
KeyedRecords ==
  { SelectSeq([n \in 1..Len(KeyOrder) |-> << KeyOrder[n], f[n] >>], Present) :
      f \in [1..Len(KeyOrder) -> {"<absent>", "", "!"}] }

\* The same with the values spelled out.
Spelled(orderData) ==
  [n \in 1..Len(orderData) |->
     << orderData[n][1], IF orderData[n][2] = "!" THEN FieldVal(orderData[n][1]) ELSE "" >>]

\* Header sequences getOrCreateHeaders may return: its standard list, the list
\* with a new key before the two computed columns, and rows 1 left by an
\* operator (no computed column; the computed columns first).
HeaderSeqs ==
  { standardHeaders,
    SubSeq(standardHeaders, 1, 11) \o << "memo", "image", "orderdate" >>,
    << "product", "memo" >>,
    << "orderdate", "image", "recipient", "product" >> }

InitRowData ==
  /\ HandlerOff
  /\ args \in [headers : HeaderSeqs,
                orderData : { Spelled(d) : d \in KeyedRecords },
                imageUrl : {"", Url(1)},
                stamp : {Stamp(0)}]
  /\ result = NotApplied
  /\ KeyedOff

\* headers.map(...) is applied to one record.
MapRowData ==
  /\ ~result.done
  /\ result' = [done |-> TRUE,
                row |-> RowData(args.headers, args.orderData, args.imageUrl, args.stamp)]
  /\ UNCHANGED << tokens, storeVars, envVars, faults, pc, reqVars, up, doneOrder, rowVars,
                  resp, calls, hdrVars, args, keyedVars >>
  /\ UNCHANGED errorMessage

NextRowData == MapRowData

\* The keyed row mapping applied to records and header sequences of every shape.
SpecRowData == InitRowData /\ [][NextRowData]_vars

\* ---------------------------------------------------------------- the keyed revisions
\* What the keyed handler never touches.
handlerOnly ==
  << pc, manager, orders, nfiles, up, doneOrder, allRows, allData, nextRow, resp,
     errorMessage, calls, row1Before, row1After, args, result >>

\* The keys of the records the form sends: standard fields only, a field the
\* standard list lacks, and a new field first together with one named like the
\* image column.
KTemplates ==
  { << "product", "recipient" >>,
    << "product", "memo" >>,
    << "gift", "product", "image" >> }

KTag(sub, i) == "k" \o ToString(sub) \o "." \o ToString(i)

\* The record with the given keys, each value naming its key and its record.
KRecord(template, tag) ==
  [n \in 1..Len(template) |-> << template[n], template[n] \o "=" \o tag >>]

\* Tabs the keyed revisions meet: empty, the standard header alone or above two
\* rows, and a header an operator typed, without the computed columns.
KeyedGrids ==
  { << >>,
    << standardHeaders >>,
    << standardHeaders, << "A" >>, << "B" >> >>,
    << << "product", "memo" >> >> }

InitKeyed ==
  /\ InitCommon
  /\ filesLeft = MaxFiles
  /\ pc = [r \in Reqs |-> "off"]
  /\ args = << >>
  /\ result = NotApplied
  /\ \/ tabs = << "Sheet1" >> /\ grid = << >>
     \/ tabs = << "Sheet1", Manager >> /\ grid \in KeyedGrids
  /\ revision \in {"part_000", "part_001"}
  /\ kpc = "idle"
  /\ korders = << >>
  /\ knfiles = 0
  /\ ki = 0
  /\ kurl = ""
  /\ kheaders = << >>
  /\ kresp = 0
  /\ subs = 0
  /\ kbase = << >>

\* The request is answered before its loop has started.
KRefuse(status) ==
  /\ kpc' = "done"
  /\ kresp' = status
  /\ korders' = << >>
  /\ knfiles' = 0
  /\ ki' = 0
  /\ kurl' = ""
  /\ UNCHANGED filesLeft

\* The catch of the handler answers.
KFail ==
  /\ kpc' = "done"
  /\ kresp' = 500

\* for (let i = ...): record i is taken in hand, its upload sent if it has a
\* file, else the listing of the tabs; past the last record the success
\* response is sent.
KStart(ords, nf, i) ==
  /\ ki' = i
  /\ kurl' = ""
  /\ IF i > Len(ords)
     THEN kpc' = "done" /\ kresp' = 200
     ELSE kpc' = (IF i <= nf THEN "create" ELSE "sheet_get") /\ kresp' = 0

\* app.post('/api/submit-orders') of the keyed revisions, up to the first await.
KSubmit ==
  /\ kpc \in {"idle", "done"}
  /\ subs < MaxSubs
  /\ subs' = subs + 1
  /\ kbase' = grid
  /\ kheaders' = << >>
  /\ IF ~tokens
     THEN KRefuse(401)
     ELSE \E valid \in BOOLEAN, mgr \in {"", Manager} :
            IF ~valid THEN KRefuse(500)
            ELSE IF revision = "part_000" /\ mgr = "" THEN KRefuse(400)
            ELSE \E k \in 0..MaxKBatch, m \in 0..MaxKBatch :
                   \E t \in [1..k -> KTemplates] :
                     /\ m <= filesLeft
                     /\ filesLeft' = filesLeft - m
                     /\ korders' = [i \in 1..k |-> KRecord(t[i], KTag(subs + 1, i))]
                     /\ knfiles' = m
                     /\ KStart(korders', m, 1)
  /\ UNCHANGED << tokens, storeVars, clock, faults, revision, handlerOnly >>

\* drive.files.create answers with a new file.
KCreateOk ==
  /\ kpc = "create"
  /\ drive' = Append(drive, [name |-> "order_" \o KTag(subs, ki), public |-> FALSE])
  /\ kpc' = "perm"
  /\ UNCHANGED << tokens, tabs, grid, envVars, faults, revision, korders, knfiles, ki, kurl,
                  kheaders, kresp, subs, kbase, handlerOnly >>

\* drive.files.create throws.
KCreateFail ==
  /\ kpc = "create"
  /\ MayFail
  /\ faults' = faults + 1
  /\ KFail
  /\ UNCHANGED << tokens, storeVars, envVars, revision, korders, knfiles, ki, kurl,
                  kheaders, subs, kbase, handlerOnly >>

\* drive.permissions.create answers: imageUrl is the link of the file.
KPermOk ==
  /\ kpc = "perm"
  /\ drive' = [drive EXCEPT ![Len(drive)].public = TRUE]
  /\ kurl' = Url(Len(drive))
  /\ kpc' = "sheet_get"
  /\ UNCHANGED << tokens, tabs, grid, envVars, faults, revision, korders, knfiles, ki,
                  kheaders, kresp, subs, kbase, handlerOnly >>

\* drive.permissions.create throws.
KPermFail ==
  /\ kpc = "perm"
  /\ MayFail
  /\ faults' = faults + 1
  /\ KFail
  /\ UNCHANGED << tokens, storeVars, envVars, revision, korders, knfiles, ki, kurl,
                  kheaders, subs, kbase, handlerOnly >>

\* ensureSheetExists: the listing answers.
KSheetsGetOk ==
  /\ kpc = "sheet_get"
  /\ kpc' = IF TabExists THEN "hdr_get" ELSE "add_sheet"
  /\ UNCHANGED << tokens, storeVars, envVars, faults, revision, korders, knfiles, ki, kurl,
                  kheaders, kresp, subs, kbase, handlerOnly >>

\* ensureSheetExists: the listing throws; the catch logs and returns.
KSheetsGetFail ==
  /\ kpc = "sheet_get"
  /\ MayFail
  /\ faults' = faults + 1
  /\ kpc' = "hdr_get"
  /\ UNCHANGED << tokens, storeVars, envVars, revision, korders, knfiles, ki, kurl,
                  kheaders, kresp, subs, kbase, handlerOnly >>

\* ensureSheetExists: addSheet creates the tab.
KAddSheetOk ==
  /\ kpc = "add_sheet"
  /\ ~TabExists
  /\ tabs' = Append(tabs, Manager)
  /\ kpc' = "hdr_get"
  /\ UNCHANGED << tokens, grid, drive, envVars, faults, revision, korders, knfiles, ki, kurl,
                  kheaders, kresp, subs, kbase, handlerOnly >>

\* ensureSheetExists: addSheet throws; the catch logs and returns.
KAddSheetFail ==
  /\ kpc = "add_sheet"
  /\ MayFail
  /\ faults' = faults + 1
  /\ kpc' = "hdr_get"
  /\ UNCHANGED << tokens, storeVars, envVars, revision, korders, knfiles, ki, kurl,
                  kheaders, kresp, subs, kbase, handlerOnly >>

\* getOrCreateHeaders: the read of row 1 answers.  An empty row 1 gets the
\* standard list with the record's new keys; in part_001 a row 1 that lacks
\* keys of the record is extended; else the row is returned as read.
KHdrGetOk ==
  /\ kpc = "hdr_get"
  /\ TabExists
  /\ LET existingHeaders == RowAt(grid, 1)
         orderKeys == Keys(korders[ki])
         extended == ExtendHeaders(existingHeaders, orderKeys, 1)
     IN  IF Len(existingHeaders) = 0
         THEN /\ kheaders' = AllHeaders(standardHeaders, orderKeys, 1)
              /\ kpc' = "hdr_put"
         ELSE IF revision = "part_001" /\ extended # existingHeaders
         THEN /\ kheaders' = extended
              /\ kpc' = "hdr_put"
         ELSE /\ kheaders' = existingHeaders
              /\ kpc' = "append"
  /\ UNCHANGED << tokens, storeVars, envVars, faults, revision, korders, knfiles, ki, kurl,
                  kresp, subs, kbase, handlerOnly >>

\* getOrCreateHeaders: the read of row 1 throws (no such tab, or an outside
\* failure); the catch returns the standard list.
KHdrGetFail ==
  /\ kpc = "hdr_get"
  /\ ~TabExists \/ MayFail
  /\ faults' = IF ~TabExists THEN faults ELSE faults + 1
  /\ kheaders' = standardHeaders
  /\ kpc' = "append"
  /\ UNCHANGED << tokens, storeVars, envVars, revision, korders, knfiles, ki, kurl,
                  kresp, subs, kbase, handlerOnly >>

\* getOrCreateHeaders: the header write succeeds; the list written is returned.
KHdrPutOk ==
  /\ kpc = "hdr_put"
  /\ TabExists
  /\ grid' = WriteAt(grid, 1, << kheaders >>)
  /\ kpc' = "append"
  /\ UNCHANGED << tokens, tabs, drive, envVars, faults, revision, korders, knfiles, ki, kurl,
                  kheaders, kresp, subs, kbase, handlerOnly >>

\* getOrCreateHeaders: the header write throws; the catch returns the standard list.
KHdrPutFail ==
  /\ kpc = "hdr_put"
  /\ MayFail
  /\ faults' = faults + 1
  /\ kheaders' = standardHeaders
  /\ kpc' = "append"
  /\ UNCHANGED << tokens, storeVars, envVars, revision, korders, knfiles, ki, kurl,
                  kresp, subs, kbase, handlerOnly >>

\* The row of the record in hand.
KRowData == RowData(kheaders, korders[ki], kurl, Stamp(clock))

\* values.append of the row succeeds; the loop goes on to the next record.
KAppendOk ==
  /\ kpc = "append"
  /\ TabExists
  /\ grid' = AppendRows(grid, << KRowData >>)
  /\ KStart(korders, knfiles, ki + 1)
  /\ UNCHANGED << tokens, tabs, drive, envVars, faults, revision, korders, knfiles,
                  kheaders, subs, kbase, handlerOnly >>

\* values.append throws (no such tab, or an outside failure).
KAppendFail ==
  /\ kpc = "append"
  /\ ~TabExists \/ MayFail
  /\ faults' = IF ~TabExists THEN faults ELSE faults + 1
  /\ KFail
  /\ UNCHANGED << tokens, storeVars, envVars, revision, korders, knfiles, ki, kurl,
                  kheaders, subs, kbase, handlerOnly >>

NextKeyed ==
  \/ KSubmit
  \/ KCreateOk \/ KCreateFail
  \/ KPermOk \/ KPermFail
  \/ KSheetsGetOk \/ KSheetsGetFail
  \/ KAddSheetOk \/ KAddSheetFail
  \/ KHdrGetOk \/ KHdrGetFail
  \/ KHdrPutOk \/ KHdrPutFail
  \/ KAppendOk \/ KAppendFail

\* The keyed revisions, one submission after the other.
SpecKeyed == InitKeyed /\ [][NextKeyed]_vars

\* The keyed revisions on a tab that is missing or empty at the start.
InitKeyedFresh == InitKeyed /\ grid = << >>

SpecKeyedFresh == InitKeyedFresh /\ [][NextKeyed]_vars

\* ---------------------------------------------------------------- reading the history
IsHdrCall(c) == c.op \in {"hdr.get", "hdr.put", "hdr.force"}

HdrCalls(r) == SelectSeq(calls[r], IsHdrCall)

Made(r, op, ok) == \E n \in 1..Len(calls[r]) : calls[r][n] = Call(op, ok)

\* ensureHeaders of request r has returned to the handler without raising.
HeadersReturned(r) ==
  LET h == HdrCalls(r)
  IN  h # << >> /\ h[Len(h)].ok /\ pc[r] # "hdr_put"

\* ensureHeaders of request r has raised into the handler's catch.
HeadersRaised(r) == Made(r, "hdr.force", FALSE)

\* Header writes sent by ensureHeaders of request r and served so far.
HdrWrites(r) ==
  LET IsWrite(c) == c.op \in {"hdr.put", "hdr.force"}
  IN  Len(SelectSeq(calls[r], IsWrite))

\* The row write of request r is being served successfully in this step.
RowsWritten(r) == pc[r] = "rows_put" /\ pc'[r] = "done" /\ resp'[r] = 200

\* ensureSheetExists of request r has returned, all its calls served without failure.
SheetEnsured(r) ==
  /\ Made(r, "sheets.get", TRUE)
  /\ pc[r] # "add_sheet"
  /\ ~Made(r, "addSheet", FALSE)

\* Positions in the history of request r of the served calls of the given kinds.
CallsAt(r, ops) == {n \in 1..Len(calls[r]) : calls[r][n].op \in ops}

SheetOps == {"sheets.get", "addSheet", "hdr.get", "hdr.put", "hdr.force", "range.get", "rows.put"}

UploadOps == {"files.create", "permissions.create"}

\* Row n of grid g holds the row built from record i of request r.
HoldsRecord(g, n, r, i) == CellAt(RowAt(g, n), 1) = OrderTag(r, i)

\* Row n of grid g holds the row built from record i of keyed submission sub:
\* every record carries a product field, whose value names the record.
KHolds(g, n, sub, i) == Includes(RowAt(g, n), "product=" \o KTag(sub, i))

\* Row 1 of grid g is a header row that names the product column.
KHeaded(g) == Len(g) >= 1 /\ Includes(g[1], "product")

\* The keyed batch in hand has been answered with success and held records.
KLanded == kpc = "done" /\ kresp = 200 /\ Len(korders) >= 1

\* The row ends with the image column, then the order-date column.
ReservedLast(row) ==
  /\ Len(row) >= 2
  /\ row[Len(row) - 1] = "image"
  /\ row[Len(row)] = "orderdate"

NoDuplicate(row) == \A p, q \in 1..Len(row) : p # q => row[p] # row[q]

\* The keys of the record that the row lacks, in the record's order.
NewKeys(row, orderData) == SelectSeq(Keys(orderData), LAMBDA key : ~Includes(row, key))

\* The step is the answer of values.append for the record in hand.
KAppended == kpc = "append" /\ kpc' # "append" /\ kresp' # 500

\* The rows of the batches among requests 1..r that were answered with
\* success, in the order of the requests.
RECURSIVE BatchRows(_)
BatchRows(r) ==
  IF r = 0 THEN << >>
  ELSE BatchRows(r - 1) \o (IF resp[r] = 200 THEN allRows[r] ELSE << >>)

\* A header write of request r is being served successfully in this step.
HeaderWritten(r) == pc[r] \in {"hdr_put", "hdr_force"} /\ HdrWrites(r)' = HdrWrites(r) + 1

\* ---------------------------------------------------------------- claims
BlankCell(cell) == cell = "" \/ cell \in Whitespace

\* The row numbers r >= 2 among the rows read whose row is entirely blank.
BlankRowsRead(d) ==
  {n \in 2..Len(d) : \A c \in 1..Len(d[n]) : BlankCell(d[n][c])}

\* C1: for every grid read from the tab, the resolved start row is the smallest
\* row number >= 2 among the rows read whose cells are all empty or
\* whitespace-only, and (rows read) + 1 when there is none.
C1_GapReuse ==
  \A r \in Reqs :
    Made(r, "range.get", TRUE) =>
      nextRow[r] = IF BlankRowsRead(allData[r]) = {}
                   THEN Len(allData[r]) + 1
                   ELSE SetMin(BlankRowsRead(allData[r]))

\* With rows [header, A, blank, B] a 1-row batch has landed at row 3, and "B"
\* is still at row 4.
C1_Witness ==
  /\ allData[1] = GapExample
  /\ Len(allRows[1]) = 1
  /\ resp[1] = 200
  /\ nextRow[1] = 3
  /\ HoldsRecord(grid, 3, 1, 1)
  /\ RowAt(grid, 4) = << "B" >>

\* The ids of the files the store holds for attachment i of request r.
FilesOf(r, i) == {id \in 1..Len(drive) : drive[id].name = FileName(r, i)}

\* C2: whatever the completion order of the uploads, the row write puts the row
\* of record i at row start + i - 1, its columns A..M from record i, its image
\* cell the link of the file uploaded for attachment i (empty without an
\* attachment), and that link is in no other row of the sheet.
C2_IndexAlignment ==
  [][\A r \in Reqs : RowsWritten(r) =>
       \A i \in 1..Len(orders[r]) :
         LET at == nextRow[r] + i - 1
             row == RowAt(grid', at)
         IN  /\ \A c \in 1..NFixed : CellAt(row, c) = CellAt(orders[r][i], c)
             /\ i > nfiles[r] => CellAt(row, NFixed + 1) = ""
             /\ i <= nfiles[r] =>
                  \E id \in FilesOf(r, i) :
                    /\ FilesOf(r, i) = {id}
                    /\ drive[id].public
                    /\ {n \in 1..Len(grid') : CellAt(RowAt(grid', n), NFixed + 1) = Url(id)}
                         = {at}]_vars

\* Two attachments whose uploads completed in the order 2, 1, written in the
\* order 1, 2.
C2_Witness ==
  \E r \in Reqs :
    /\ doneOrder[r] = << 2, 1 >>
    /\ resp[r] = 200
    /\ HoldsRecord(grid, nextRow[r], r, 1)
    /\ HoldsRecord(grid, nextRow[r] + 1, r, 2)
    /\ CellAt(RowAt(grid, nextRow[r]), NFixed + 1) = Url(up[r][1].id)
    /\ up[r][1].id > up[r][2].id

Rejected(r) == \E i \in 1..Len(up[r]) : up[r][i].st = "rejected"

\* Some row of grid g holds a record of request r.
HoldsRowOf(g, r) ==
  \E n \in 1..Len(g), i \in 1..MaxBatch : HoldsRecord(g, n, r, i)

\* C3: once the upload or the make-public call of an attachment has failed, the
\* batch can only end with status 500: it reads no range, writes no row, and no
\* row of it is in the sheet, wherever its other uploads stand.
C3_NoPartialCommit ==
  \A r \in Reqs :
    Rejected(r) =>
      /\ pc[r] \in {"uploads", "done"}
      /\ pc[r] = "uploads" => resp[r] = 0 /\ ENABLED Reject(r) /\ ~ENABLED Join(r)
      /\ pc[r] = "done" => resp[r] = 500
      /\ ~Made(r, "range.get", TRUE) /\ ~Made(r, "range.get", FALSE)
      /\ ~Made(r, "rows.put", TRUE) /\ ~Made(r, "rows.put", FALSE)
      /\ ~HoldsRowOf(grid, r)

\* The make-public call of attachment 1 failed and the batch was answered 500
\* while the upload of attachment 2 was still in flight.
C3_Witness ==
  \E r \in Reqs :
    /\ Len(up[r]) = 2
    /\ up[r][1] = [st |-> "rejected", id |-> 1]
    /\ up[r][2].st \in {"creating", "perm"}
    /\ resp[r] = 500

\* C4: two batches that both answered success after resolving the same start row
\* each read the range before the other wrote, and the first row of one of them
\* is no longer in the sheet.
C4_InsertionRace ==
  \A r1, r2 \in Reqs :
    ( /\ r1 # r2
      /\ resp[r1] = 200 /\ Len(allRows[r1]) > 0
      /\ resp[r2] = 200 /\ Len(allRows[r2]) > 0
      /\ nextRow[r1] = nextRow[r2] )
    => /\ ~HoldsRowOf(allData[r1], r2)
       /\ ~HoldsRowOf(allData[r2], r1)
       /\ \E r \in {r1, r2} : \A n \in 1..Len(grid) : ~HoldsRecord(grid, n, r, 1)

\* Both batches answered success with the same start row and no row of the
\* first batch is left in the sheet.
C4_Witness ==
  /\ resp[1] = 200 /\ Len(allRows[1]) > 0
  /\ resp[2] = 200 /\ Len(allRows[2]) > 0
  /\ nextRow[1] = nextRow[2]
  /\ ~HoldsRowOf(allData[1], 2) /\ ~HoldsRowOf(allData[2], 1)
  /\ ~HoldsRowOf(grid, 1)
  /\ HoldsRowOf(grid, 2)

\* C5: the row write of a batch of k rows with start row s sets columns A..O of
\* rows s..s+k-1 to the batch's rows, whatever they held, and leaves every other
\* cell of the sheet as it was.
C5_BlockWrite ==
  [][\A r \in Reqs : RowsWritten(r) =>
       LET s == nextRow[r]
           k == Len(allRows[r])
       IN  \A n \in 1..(Max(Len(grid), Len(grid')) + 1) :
             IF n >= s /\ n <= s + k - 1
             THEN \A c \in 1..Max(NCols, Len(RowAt(grid, n))) :
                    CellAt(RowAt(grid', n), c) =
                      IF c <= NCols THEN allRows[r][n - s + 1][c]
                      ELSE CellAt(RowAt(grid, n), c)
             ELSE RowAt(grid', n) = RowAt(grid, n)]_vars

\* A 2-row batch started at an interior blank row and its second row replaced
\* the non-blank row that followed the gap.
C5_Witness ==
  \E r \in Reqs :
    /\ resp[r] = 200
    /\ Len(allRows[r]) = 2
    /\ nextRow[r] < Len(allData[r])
    /\ IsBlankRow(allData[r][nextRow[r]])
    /\ ~IsBlankRow(allData[r][nextRow[r] + 1])
    /\ HoldsRecord(grid, nextRow[r], r, 1)
    /\ HoldsRecord(grid, nextRow[r] + 1, r, 2)

\* ensureHeaders of request r has read row 1.
ReadOk(r) == Made(r, "hdr.get", TRUE)

\* A read or write of ensureHeaders of request r has failed.
HdrFailed(r) == \E n \in 1..Len(HdrCalls(r)) : ~HdrCalls(r)[n].ok

\* The first NCols cells of the row are the canonical schema, in order.
CanonicalPrefix(row) == \A c \in 1..NCols : CellAt(row, c) = FIXED_HEADERS[c]

\* C6: when ensureHeaders read an empty row 1 and has returned, it has written
\* the header, and row 1 at its return was the canonical schema exactly.
C6_EmptyTab ==
  \A r \in Reqs :
    ReadOk(r) /\ row1Before[r] = << >> /\ HeadersReturned(r) =>
      /\ Made(r, "hdr.put", TRUE) \/ Made(r, "hdr.force", TRUE)
      /\ row1After[r] = FIXED_HEADERS
      /\ Len(row1After[r]) = 15

\* ensureHeaders found row 1 empty above existing rows and left the canonical
\* schema in it.
C6_Witness ==
  \E r \in Reqs :
    /\ ReadOk(r) /\ row1Before[r] = << >> /\ HeadersReturned(r)
    /\ ~HdrFailed(r)
    /\ Len(grid) > 1
    /\ RowAt(grid, 1) = FIXED_HEADERS

\* C7: of two consecutive calls of ensureHeaders with no store failure, the
\* second finds row 1 as the first left it, sends no write and leaves it so.
C7_Idempotent ==
  \A r1, r2 \in Reqs :
    ( /\ r2 = r1 + 1
      /\ HeadersReturned(r1) /\ ~HdrFailed(r1)
      /\ HeadersReturned(r2) /\ ~HdrFailed(r2) )
    => /\ row1Before[r2] = row1After[r1]
       /\ HdrWrites(r2) = 0
       /\ row1After[r2] = row1After[r1]

\* The first call replaced a foreign row 1, the second call wrote nothing.
C7_Witness ==
  /\ HeadersReturned(1) /\ ~HdrFailed(1)
  /\ HeadersReturned(2) /\ ~HdrFailed(2)
  /\ row1Before[1] = << "old", "memo" >>
  /\ HdrWrites(1) = 1
  /\ HdrWrites(2) = 0
  /\ row1After[2] = FIXED_HEADERS

\* C8: when ensureHeaders read a row 1 whose first cell is the canonical first
\* entry, it has returned without sending any write and row 1 at its return is
\* cell for cell the row it read.
C8_Untouched ==
  \A r \in Reqs :
    ReadOk(r) /\ CellAt(row1Before[r], 1) = FIXED_HEADERS[1] =>
      /\ HeadersReturned(r)
      /\ HdrWrites(r) = 0
      /\ row1After[r] = row1Before[r]

\* Row 1 shares only its first cell with the canonical schema and is shorter;
\* the batch has been written and row 1 is as it was.
C8_Witness ==
  \E r \in Reqs :
    /\ ReadOk(r)
    /\ row1Before[r] = << FIXED_HEADERS[1], "memo" >>
    /\ resp[r] = 200 /\ Made(r, "rows.put", TRUE)
    /\ RowAt(grid, 1) = << FIXED_HEADERS[1], "memo" >>

\* C9: when ensureHeaders has returned, the first cell of row 1 was the
\* canonical first entry; if the first cell it read differed, the first 15 cells
\* of row 1 were the canonical schema in order.
C9_FirstCell ==
  \A r \in Reqs :
    HeadersReturned(r) =>
      /\ CellAt(row1After[r], 1) = FIXED_HEADERS[1]
      /\ ReadOk(r) /\ CellAt(row1Before[r], 1) # FIXED_HEADERS[1] =>
           CanonicalPrefix(row1After[r])

\* A foreign row 1 was read and the canonical schema stands in its place.
C9_Witness ==
  \E r \in Reqs :
    /\ ReadOk(r)
    /\ row1Before[r] = << "old", "memo" >>
    /\ HeadersReturned(r)
    /\ row1After[r] = FIXED_HEADERS

\* C10 as stated: after a failed read of row 1 or a failed header write the
\* forced write is sent and the batch is not aborted by ensureHeaders.
C10_NeverAborts ==
  \A r \in Reqs :
    Made(r, "hdr.get", FALSE) \/ Made(r, "hdr.put", FALSE) =>
      /\ pc[r] = "hdr_force" \/ Made(r, "hdr.force", TRUE) \/ Made(r, "hdr.force", FALSE)
      /\ ~HeadersRaised(r)

\* C10, amended: after a failed read of row 1 or a failed header write the
\* forced write of the canonical schema is sent, whatever row 1 holds; if it
\* succeeds the batch goes on with the canonical schema in row 1 (a later
\* status 500 comes from a later call), if it fails too the batch ends with
\* status 500 having made no further store call and written no row.
C10_Fallback ==
  \A r \in Reqs :
    Made(r, "hdr.get", FALSE) \/ Made(r, "hdr.put", FALSE) =>
      /\ pc[r] = "hdr_force" \/ Made(r, "hdr.force", TRUE) \/ Made(r, "hdr.force", FALSE)
      /\ Made(r, "hdr.force", TRUE) =>
           /\ HeadersReturned(r)
           /\ CanonicalPrefix(row1After[r])
           /\ pc[r] = "done" /\ resp[r] = 500 => ~IsHdrCall(calls[r][Len(calls[r])])
      /\ Made(r, "hdr.force", FALSE) =>
           /\ pc[r] = "done" /\ resp[r] = 500
           /\ calls[r][Len(calls[r])] = Call("hdr.force", FALSE)
           /\ ~HoldsRowOf(grid, r)

\* The header write failed, the forced write went through and the batch was
\* written.
C10_Witness ==
  \E r \in Reqs :
    /\ Made(r, "hdr.put", FALSE)
    /\ Made(r, "hdr.force", TRUE)
    /\ resp[r] = 200
    /\ HoldsRowOf(grid, r)

\* C11: for a positional record of any length the built row has exactly 15
\* cells; cell i of 0..12 is entry i of the record, the empty string when the
\* record has no entry i; cell 13 is the attachment link and cell 14 the
\* timestamp; no entry at index 13 or beyond is in the row, and the mapping
\* returns for every record.
C11_PositionalRow ==
  /\ ~result.done /\ DOMAIN args = {"orderValues", "imageUrl", "stamp"} => ENABLED MapRow
  /\ result.done /\ DOMAIN args = {"orderValues", "imageUrl", "stamp"} =>
       LET rec == args.orderValues
           row == result.row
       IN  /\ Len(row) = 15
           /\ \A i \in 0..12 :
                row[i + 1] = IF i + 1 <= Len(rec) THEN rec[i + 1] ELSE ""
           /\ row[14] = args.imageUrl
           /\ row[15] = args.stamp
           /\ \A c \in 14..Len(rec) : \A n \in 1..Len(row) : rec[c] = "" \/ row[n] # rec[c]

\* A record of 15 entries with its second entry empty was mapped: the third
\* entry is in the third cell, the link in the fourteenth.
C11_Witness ==
  /\ result.done
  /\ DOMAIN args = {"orderValues", "imageUrl", "stamp"}
  /\ Len(args.orderValues) = 15
  /\ args.orderValues[2] = ""
  /\ args.orderValues[14] = Val(14)
  /\ result.row[3] = Val(3)
  /\ result.row[14] = Url(1)

\* C12: for every keyed record and header sequence H the built row has length
\* |H|; under the image column it holds the attachment link (empty without an
\* attachment), under the order-date column the submission time, whatever the
\* record holds under those two names; under any other name the record's value
\* for that name, the empty string when the record has no such key.
C12_KeyedRow ==
  result.done =>
    LET H == args.headers
        rec == args.orderData
        row == result.row
    IN  /\ Len(row) = Len(H)
        /\ \A n \in 1..Len(H) :
             row[n] = IF H[n] = "image" THEN args.imageUrl
                      ELSE IF H[n] = "orderdate" THEN args.stamp
                      ELSE IF \E m \in 1..Len(rec) : rec[m][1] = H[n]
                      THEN rec[CHOOSE m \in 1..Len(rec) : rec[m][1] = H[n]][2]
                      ELSE ""

\* A record with product and recipient set and fields of its own named like the
\* two computed columns was mapped on the standard header without attachment:
\* product and recipient filled, image cell empty, timestamp set, the rest empty.
C12_Witness ==
  /\ result.done
  /\ args.headers = standardHeaders
  /\ args.imageUrl = ""
  /\ args.orderData = << << "product", "product!" >>, << "recipient", "recipient!" >>,
                         << "image", "image!" >>, << "orderdate", "orderdate!" >> >>
  /\ result.row = << "product!", "recipient!", "", "", "", "", "", "", "", "", "", "", Stamp(0) >>

\* C13: a batch answered with success has listed the tabs once and read row 1
\* once, both before any upload call; with k >= 1 records it has sent exactly
\* one row write, of k rows, after one range read; with no record it has sent
\* neither.
C13_OncePerBatch ==
  \A r \in Reqs :
    resp[r] = 200 =>
      /\ Cardinality(CallsAt(r, {"sheets.get"})) = 1
      /\ Cardinality(CallsAt(r, {"hdr.get"})) = 1
      /\ \A n \in CallsAt(r, {"sheets.get", "addSheet", "hdr.get", "hdr.put", "hdr.force"}) :
           \A m \in CallsAt(r, UploadOps) : n < m
      /\ Len(orders[r]) >= 1 =>
           /\ Cardinality(CallsAt(r, {"rows.put"})) = 1
           /\ Cardinality(CallsAt(r, {"range.get"})) = 1
           /\ Len(allRows[r]) = Len(orders[r])
           /\ \A i \in 1..Len(orders[r]) : HoldsRecord(allRows[r], i, r, i)
      /\ Len(orders[r]) = 0 => CallsAt(r, {"rows.put", "range.get"}) = {}

\* A batch of two records with two attachments succeeded with one row write.
C13_Witness ==
  \E r \in Reqs :
    /\ resp[r] = 200
    /\ Len(orders[r]) = 2
    /\ Cardinality(CallsAt(r, {"files.create"})) = 2
    /\ Cardinality(CallsAt(r, {"rows.put"})) = 1
    /\ HoldsRecord(grid, nextRow[r], r, 1)
    /\ HoldsRecord(grid, nextRow[r] + 1, r, 2)

\* C14: while the tab check or the header check of a batch is pending, none of
\* its uploads has started; once its rows are built, its range read or its row
\* write is pending or served, every upload of it (file creation, then the
\* make-public call) has completed; in the order the store served the batch's
\* calls, the tab and header calls come first, the upload calls next, the range
\* read and the row write last.
C14_Phases ==
  \A r \in Reqs :
    /\ pc[r] \in {"idle", "sheet_get", "add_sheet", "hdr_get", "hdr_put", "hdr_force"} =>
         up[r] = << >> /\ CallsAt(r, UploadOps) = {}
    /\ ( \/ pc[r] \in {"range_get", "rows_put"}
         \/ allRows[r] # << >>
         \/ CallsAt(r, {"range.get", "rows.put"}) # {} ) =>
         /\ \A i \in 1..Len(up[r]) : up[r][i].st = "resolved"
         /\ \A i \in 1..Len(up[r]) : i <= nfiles[r] => drive[up[r][i].id].public
    /\ \A n \in CallsAt(r, SheetOps \ {"range.get", "rows.put"}) :
         \A m \in CallsAt(r, UploadOps \cup {"range.get", "rows.put"}) : n < m
    /\ \A n \in CallsAt(r, UploadOps) :
         \A m \in CallsAt(r, {"range.get", "rows.put"}) : n < m

\* The header was written, two attachments were uploaded and made public, and
\* then the range was read and the rows written.
C14_Witness ==
  \E r \in Reqs :
    /\ resp[r] = 200
    /\ Made(r, "hdr.put", TRUE)
    /\ Cardinality(CallsAt(r, {"permissions.create"})) = 2
    /\ Made(r, "rows.put", TRUE)

\* C15 as stated: a request made while no credential is held is answered 401,
\* one made with a credential and without manager is answered 400, whatever
\* its orders payload; either way the handler returns at once, with no call to
\* the sheet or the file store and both stores as they were.
C15_Rejections ==
  [][\A r \in Reqs :
       pc[r] = "idle" /\ pc'[r] # "idle" =>
         /\ ~tokens => resp'[r] = 401
         /\ tokens /\ manager'[r] = "" => resp'[r] = 400
         /\ ~tokens \/ manager'[r] = "" =>
              /\ pc'[r] = "done"
              /\ calls'[r] = << >>
              /\ storeVars' = storeVars]_vars

\* No two tabs of the spreadsheet share a title.
NoTwinTabs(t) == \A n, m \in 1..Len(t) : t[n] = t[m] => n = m

\* C16: once ensureSheetExists has returned with no failed call, the tab
\* exists; when the listing is answered while the tab exists, the call returns
\* without a create request and with tabs and cells as they were; in every
\* step, of one call or of interleaved ones, no two tabs share a title and every
\* tab stays where it was.
C16_SheetIdempotent ==
  [][/\ NoTwinTabs(tabs) /\ NoTwinTabs(tabs')
     /\ Len(tabs') >= Len(tabs) /\ SubSeq(tabs', 1, Len(tabs)) = tabs
     /\ \A r \in Reqs :
          /\ SheetEnsured(r)' => TabExists'
          /\ pc[r] = "sheet_get" /\ pc'[r] # "sheet_get" /\ TabExists =>
               /\ pc'[r] = "hdr_get"
               /\ storeVars' = storeVars
               /\ CallsAt(r, {"addSheet"})' = {}]_vars

\* Two interleaved calls both found the tab missing and both sent the create
\* request: one created the tab, the other was refused, and the tab is there once.
C16_Witness ==
  /\ Made(1, "addSheet", TRUE)
  /\ Made(2, "addSheet", FALSE)
  /\ faults = 0
  /\ Cardinality({n \in 1..Len(tabs) : tabs[n] = Manager}) = 1
  /\ resp[2] = 200

\* C17: when the listing of the tabs or the creation of the tab has failed,
\* ensureSheetExists has returned and the handler's next call is the read of
\* row 1; while the tab is missing, the batch makes no upload, reads no range
\* and writes no row, and if answered it is answered 500.
C17_Provisioning ==
  \A r \in Reqs :
    \A n \in CallsAt(r, {"sheets.get", "addSheet"}) :
      ~calls[r][n].ok =>
        /\ IF n = Len(calls[r])
           THEN pc[r] = "hdr_get" /\ resp[r] = 0
           ELSE calls[r][n + 1].op = "hdr.get"
        /\ ~TabExists =>
             /\ pc[r] \in {"hdr_get", "hdr_force", "done"}
             /\ pc[r] = "done" => resp[r] = 500
             /\ CallsAt(r, UploadOps \cup {"range.get", "rows.put"}) = {}
             /\ ~HoldsRowOf(grid, r)

\* The listing failed, the tab was still missing, and the batch ended 500 at
\* the forced header write.
C17_Witness ==
  \E r \in Reqs :
    /\ Made(r, "sheets.get", FALSE)
    /\ ~TabExists
    /\ Len(orders[r]) > 0
    /\ Made(r, "hdr.force", FALSE)
    /\ resp[r] = 500

\* C18: the step in which the row write of a batch fails answers the request
\* with status 500 and the message of that failure, and leaves every cell of
\* the sheet and every file of the store as it was; from then on the batch has
\* sent that one row write and no call after it, and each attachment it
\* uploaded is in the file store, public.
C18_RowWriteFailure ==
  [][\A r \in Reqs :
       Made(r, "rows.put", FALSE)' =>
         /\ pc'[r] = "done" /\ resp'[r] = 500
         /\ errorMessage'[r] = ErrorOf("rows.put")
         /\ CallsAt(r, {"rows.put"})' = {Len(calls'[r])}
         /\ \A i \in 1..Len(orders'[r]) :
              i <= nfiles'[r] => \E id \in FilesOf(r, i)' : drive'[id].public
         /\ ~Made(r, "rows.put", FALSE) => storeVars' = storeVars]_vars

\* The row write of a batch with two uploaded attachments failed: status 500,
\* no row of the batch in the sheet, both files still in the store.
C18_Witness ==
  \E r \in Reqs :
    /\ Made(r, "rows.put", FALSE)
    /\ resp[r] = 500
    /\ nfiles[r] = 2
    /\ Len(drive) = 2 /\ drive[1].public /\ drive[2].public
    /\ ~HoldsRowOf(grid, r)

\* C19 as stated: a batch of k keyed records submitted to a tab of n occupied
\* rows lands at rows n+1..n+k in submission order with every earlier row as
\* it was, and on [header, A, B] a batch of two lands at rows 3 and 4.
C19_AppendAsStated ==
  KLanded =>
    LET n == Len(kbase)
        k == Len(korders)
    IN  /\ \A i \in 1..k : KHolds(grid, n + i, subs, i)
        /\ \A j \in 1..n : RowAt(grid, j) = kbase[j]
        /\ kbase = << standardHeaders, << "A" >>, << "B" >> >> /\ k = 2 =>
             KHolds(grid, 3, subs, 1) /\ KHolds(grid, 4, subs, 2)

\* C19, amended: a successful batch of k keyed records submitted to a tab whose
\* occupied rows are rows 1..n, row 1 a header, lands at rows n+1..n+k in submission
\* order, the sheet ends at row n+k, and rows 2..n are as they were (row 1 too
\* in part_000); on [header, A, B] a batch of two lands at rows 4 and 5.  On an
\* empty tab, when no call fails, the batch lands at rows 2..k+1 below the
\* header written first.
C19_AppendOnly ==
  KLanded =>
    LET n == Len(kbase)
        k == Len(korders)
    IN  /\ KHeaded(kbase) =>
             /\ \A i \in 1..k : KHolds(grid, n + i, subs, i)
             /\ Len(grid) = n + k
             /\ \A j \in 2..n : RowAt(grid, j) = kbase[j]
             /\ revision = "part_000" => RowAt(grid, 1) = kbase[1]
        /\ kbase = << standardHeaders, << "A" >>, << "B" >> >> /\ k = 2 =>
             KHolds(grid, 4, subs, 1) /\ KHolds(grid, 5, subs, 2)
        /\ n = 0 /\ faults = 0 =>
             /\ \A i \in 1..k : KHolds(grid, 1 + i, subs, i)
             /\ Len(grid) = 1 + k
             /\ ~KHolds(grid, 1, subs, 1)

\* In part_000 a batch of two was appended to [header, A, B]: A and B are at
\* rows 2 and 3, the batch at rows 4 and 5.
C19_Witness ==
  /\ KLanded
  /\ revision = "part_000"
  /\ kbase = << standardHeaders, << "A" >>, << "B" >> >>
  /\ Len(korders) = 2
  /\ RowAt(grid, 2) = << "A" >> /\ RowAt(grid, 3) = << "B" >>
  /\ KHolds(grid, 4, subs, 1) /\ KHolds(grid, 5, subs, 2)

\* C20: across the submissions to one tab, a column name stored at position p
\* of row 1 stays at position p, the image and order-date columns included
\* when the adaptive-extend revision extends the header with a new key.
C20_NoColumnDrift ==
  [][\A p \in 1..Len(RowAt(grid, 1)) :
       RowAt(grid, 1)[p] # "" => CellAt(RowAt(grid', 1), p) = RowAt(grid, 1)[p]]_vars

\* C21: in the adaptive-extend revision, from a tab empty at the start and with
\* no failing call, row 1 once written ends with the image column then the
\* order-date column and holds no name twice; it is first written as the
\* standard list with the record's new keys put before its last two entries,
\* and every later change of it puts the new keys of the record in hand
\* immediately before these two entries.
C21_ReservedLast ==
  /\ [](revision = "part_001" /\ faults = 0 /\ Len(RowAt(grid, 1)) > 0 =>
          ReservedLast(RowAt(grid, 1)) /\ NoDuplicate(RowAt(grid, 1)))
  /\ [][revision = "part_001" /\ faults' = 0 /\ RowAt(grid', 1) # RowAt(grid, 1) =>
          LET old == IF Len(RowAt(grid, 1)) = 0 THEN standardHeaders ELSE RowAt(grid, 1)
              new == NewKeys(old, korders[ki])
          IN  /\ Len(new) > 0 \/ Len(RowAt(grid, 1)) = 0
              /\ RowAt(grid', 1) =
                   SubSeq(old, 1, Len(old) - 2) \o new \o SubSeq(old, Len(old) - 1, Len(old))]_vars

\* Two submissions to the adaptive-extend revision have been answered with
\* success without a failing call: the first created the header, the second
\* extended it, and both new keys stand before the image column.
C21_Witness ==
  /\ revision = "part_001" /\ faults = 0
  /\ subs = 2 /\ KLanded
  /\ Len(kbase) >= 2 /\ Len(kbase[1]) = Len(standardHeaders) + 1
  /\ RowAt(grid, 1) =
       SubSeq(standardHeaders, 1, 11) \o << "memo", "gift", "image", "orderdate" >>

\* C22: in both keyed revisions, when the row of a record has been appended
\* and no call has failed, every field of the record with a non-empty value and a key other than the
\* image and order-date names stands in the appended row under the cell of
\* row 1 that holds its key.
C22_NoDataLoss ==
  [][KAppended /\ faults' = 0 =>
       \A n \in 1..Len(korders[ki]) :
         LET key == korders[ki][n][1]
             value == korders[ki][n][2]
         IN  value # "" /\ key \notin {"image", "orderdate"} =>
               \E p \in 1..Len(RowAt(grid', 1)) :
                 /\ RowAt(grid', 1)[p] = key
                 /\ CellAt(RowAt(grid', Len(grid) + 1), p) = value]_vars

\* C23: in part_000, when the upload of a record fails, the batch is answered
\* 500 and the tab holds no row of that batch, the rows of the records before
\* it included.
C23_NoPartialCommit ==
  [][revision = "part_000" /\ kpc \in {"create", "perm"} /\ kpc' = "done" =>
       /\ kresp' = 500
       /\ \A j \in 1..Len(korders), n \in 1..Len(grid') : ~KHolds(grid', n, subs, j)]_vars

\* C24: in the keyed revisions every row appended is as long as row 1 of the
\* tab at the moment of the append and is built from the names of that row in
\* their order, also when the read of row 1 has failed and getOrCreateHeaders
\* has returned its built-in list.
C24_RowsAligned ==
  [][KAppended =>
       /\ Len(KRowData) = Len(RowAt(grid, 1))
       /\ KRowData = RowData(RowAt(grid, 1), korders[ki], kurl, Stamp(clock))]_vars

\* C25: the start row resolved for a row write is at least 2 in every reachable
\* state, also when the tab is edited between the header check and the read of
\* the range so that the read returns no rows.
C25_StartRow == \A r \in Reqs : nextRow[r] # 0 => nextRow[r] >= 2

\* C26: from a tab empty at the start, with batches served one after the other
\* and no outside edit, once a batch has succeeded row 1 is the canonical header
\* and rows 2.. are exactly the rows of the successful batches, concatenated in
\* the order of submission: none is lost, overwritten or parted by a blank row.
C26_SequentialBatches ==
  (\E r \in Reqs : resp[r] = 200) =>
    /\ RowAt(grid, 1) = FIXED_HEADERS
    /\ SubSeq(grid, 2, Len(grid)) = BatchRows(NReq)

\* Two batches, the first of two records and the second of one, have succeeded
\* one after the other: their rows stand in rows 2, 3 and 4.
C26_Witness ==
  /\ resp[1] = 200 /\ resp[2] = 200
  /\ Len(orders[1]) = 2 /\ Len(orders[2]) = 1
  /\ Len(grid) = 4
  /\ HoldsRecord(grid, 2, 1, 1) /\ HoldsRecord(grid, 3, 1, 2) /\ HoldsRecord(grid, 4, 2, 1)

\* C27: concurrent batches on a tab empty at the start, no call failing: once
\* the header check of some batch has returned, and so after all batches have
\* finished, row 1 is the canonical header; and a header write of a batch
\* changes no row below row 1 and does not fall on a data row of a batch.
C27_HeaderRace ==
  /\ [](faults = 0 /\ (\E r \in Reqs : HeadersReturned(r)) => RowAt(grid, 1) = FIXED_HEADERS)
  /\ [][faults' = 0 /\ (\E r \in Reqs : HeaderWritten(r)) =>
          /\ \A n \in 2..Len(grid) : RowAt(grid', n) = grid[n]
          /\ Len(grid') = Max(Len(grid), 1)
          /\ \A q \in Reqs : \A i \in 1..Len(orders[q]) : ~HoldsRecord(grid, 1, q, i)]_vars

\* Both batches found row 1 empty; the first has written the header and its
\* row and has been answered with success, and the header write of the second
\* is about to be served on the tab that holds that row.
C27_Witness ==
  /\ faults = 0
  /\ row1Before[1] = << >> /\ row1Before[2] = << >>
  /\ pc[1] = "done" /\ resp[1] = 200 /\ HdrWrites(1) = 1
  /\ pc[2] = "hdr_put" /\ Len(orders[2]) >= 1
  /\ RowAt(grid, 1) = FIXED_HEADERS
  /\ HoldsRecord(grid, 2, 1, 1)

====
